---- MODULE Spec2Model ----
(***************************************************************************)
(* Model of jules-scratch/verification/verify_homepage.py.                 *)
(*                                                                         *)
(* The script is one function, run(playwright), called once per process    *)
(* (lines 35-36).  Every statement of run() is a call on an external       *)
(* collaborator: the Playwright browser/page objects, or the process's     *)
(* standard output through print().  Each such call either returns or      *)
(* raises an Exception; which of the two is the environment's choice.      *)
(* print() raises OSError when the stream is closed or broken and          *)
(* UnicodeEncodeError when the text cannot be encoded for the stream; both *)
(* are subclasses of Exception, like Playwright's Error, TimeoutError and  *)
(* the AssertionError of expect().                                         *)
(*                                                                         *)
(* One action models one statement.  The control flow between statements   *)
(* (sequence, try / except Exception / finally) is in Succ and OnRaise.    *)
(***************************************************************************)
EXTENDS Naturals, Sequences, FiniteSets

\* How many times in a row the script is run.
MaxRuns == 2

\* The two artifact paths (lines 23 and 29).
HomepagePng == "jules-scratch/verification/homepage.png"
ErrorPng    == "jules-scratch/verification/error.png"
Paths       == {HomepagePng, ErrorPng}

\* The statements of run(), by line.
OutsideTry == {"launch", "new_page"}                          \* lines 5-6
TryBody    == {"goto", "print_hdr", "content", "print_content",
               "print_ftr", "expect", "shot_home", "print_ok"} \* lines 11-24
Handler    == {"print_err", "shot_err", "print_done"}         \* lines 27-30
Steps      == OutsideTry \cup TryBody \cup Handler \cup {"close"}

\* The calls made on the page object.
PageOps == {"goto", "content", "expect", "shot_home", "shot_err"}

\* The lines print() writes.
MsgHeader  == "--- Page Content ---"
MsgContent == "page.content()"
MsgFooter  == "--------------------"
MsgSuccess == "Screenshot taken successfully!"
MsgError   == "An error occurred: "
MsgErrShot == "Error screenshot taken."

VARIABLES
  pc,       \* the statement about to execute; "start" before the first call,
            \* "returned" / "raised" once run() has exited
  run,      \* number of the current invocation of the script (0: none yet)
  browser,  \* "none", "open", "closed": the session launched at line 5
  page,     \* "none", "open", "closed": the page opened at line 6
  e,        \* the exception bound by `except Exception as e` (the statement
            \* that raised it), "none" outside the handler
  raising,  \* the exception propagating out of run(), "none" if there is none
  log,      \* what this run has written to standard output
  files,    \* the filesystem: path -> run that last wrote it (0: absent)
  calls,    \* the calls this run has made on its collaborators, with results
  past      \* the calls of the earlier runs, one sequence per run

vars == <<pc, run, browser, page, e, raising, log, files, calls, past>>

Call(step, ok) == [step |-> step, ok |-> ok]
Line(msg, arg) == [msg |-> msg, arg |-> arg]

----------------------------------------------------------------------------
\* Control flow.

\* Succ with the markup dump left out: navigation is followed at once by the
\* heading wait.
Succ_SkipMarkup(step) ==
  CASE step = "launch"        -> "new_page"
    [] step = "new_page"      -> "goto"
    [] step = "goto"          -> "expect"
    [] step = "expect"        -> "shot_home"
    [] step = "shot_home"     -> "print_ok"
    [] step = "print_ok"      -> "close"
    [] step = "print_err"     -> "shot_err"
    [] step = "shot_err"      -> "print_done"
    [] step = "print_done"    -> "close"

\* The statement that follows `step` when it returns normally.
Succ(step) ==
  CASE step = "launch"        -> "new_page"
    [] step = "new_page"      -> "goto"
    [] step = "goto"          -> "print_hdr"
    [] step = "print_hdr"     -> "content"
    [] step = "content"       -> "print_content"
    [] step = "print_content" -> "print_ftr"
    [] step = "print_ftr"     -> "expect"
    [] step = "expect"        -> "shot_home"
    [] step = "shot_home"     -> "print_ok"
    [] step = "print_ok"      -> "close"
    [] step = "print_err"     -> "shot_err"
    [] step = "shot_err"      -> "print_done"
    [] step = "print_done"    -> "close"

\* OnRaise with close() at the end of the try and except blocks instead of in
\* a finally clause: an exception raised in the handler leaves run() at once.
OnRaise_NoFinally(step) ==
  IF step \in TryBody THEN [pc |-> "print_err", caught |-> TRUE]
  ELSE [pc |-> "raised", caught |-> FALSE]

\* OnRaise with the handler's statements guarded: an exception raised in the
\* handler is swallowed before the finally clause runs.
OnRaise_GuardedHandler(step) ==
  IF step \in TryBody THEN [pc |-> "print_err", caught |-> TRUE]
  ELSE IF step \in Handler THEN [pc |-> "close", caught |-> TRUE]
  ELSE [pc |-> "raised", caught |-> FALSE]

\* Where control goes when `step` raises an Exception: the except clause
\* (the exception is caught and bound to e), the finally clause (the
\* exception stays in flight), or straight out of run().
OnRaise(step) ==
  IF step \in TryBody THEN [pc |-> "print_err", caught |-> TRUE]
  ELSE IF step \in Handler THEN [pc |-> "close", caught |-> FALSE]
  ELSE [pc |-> "raised", caught |-> FALSE]

\* WriteFile that keeps a file that already exists.
WriteFile_KeepExisting(fs, path, r) ==
  IF fs[path] = 0 THEN [fs EXCEPT ![path] = r] ELSE fs

\* page.screenshot(path=...) writes the file, replacing what was there.
WriteFile(fs, path, r) == [fs EXCEPT ![path] = r]

\* The statement `step` executes with result `ok`.
Exec(step, ok) ==
  /\ pc = step
  /\ calls' = Append(calls, Call(step, ok))
  /\ IF ok
       THEN /\ pc' = Succ(step)
            /\ UNCHANGED <<e, raising>>
       ELSE LET t == OnRaise(step) IN
            /\ pc' = t.pc
            /\ e' = IF t.caught THEN step ELSE e
            /\ raising' = IF t.caught THEN raising ELSE step

\* print(msg): the line reaches the stream only if print returns.
Write(ok, msg, arg) ==
  /\ log' = IF ok THEN Append(log, Line(msg, arg)) ELSE log
  /\ UNCHANGED <<run, browser, page, files, past>>

----------------------------------------------------------------------------
\* The script.

Init ==
  /\ pc = "start"
  /\ run = 0
  /\ browser = "none"
  /\ page = "none"
  /\ e = "none"
  /\ raising = "none"
  /\ log = <<>>
  /\ files = [p \in Paths |-> 0]
  /\ calls = <<>>
  /\ past = <<>>

\* Lines 35-36: a new process calls run(); nothing of the previous process
\* is left but the files.
Run ==
  /\ pc \in {"start", "returned", "raised"}
  /\ run < MaxRuns
  /\ run' = run + 1
  /\ pc' = "launch"
  /\ browser' = "none"
  /\ page' = "none"
  /\ e' = "none"
  /\ raising' = "none"
  /\ log' = <<>>
  /\ calls' = <<>>
  /\ past' = IF run = 0 THEN past ELSE Append(past, calls)
  /\ UNCHANGED files

\* Line 5.
Launch ==
  \E ok \in BOOLEAN :
    /\ Exec("launch", ok)
    /\ browser' = IF ok THEN "open" ELSE browser
    /\ UNCHANGED <<run, page, log, files, past>>

\* Line 6.
NewPage ==
  \E ok \in BOOLEAN :
    /\ Exec("new_page", ok)
    /\ page' = IF ok THEN "open" ELSE page
    /\ UNCHANGED <<run, browser, log, files, past>>

\* Line 11.
Goto ==
  \E ok \in BOOLEAN :
    /\ Exec("goto", ok)
    /\ UNCHANGED <<run, browser, page, log, files, past>>

\* Line 14.
PrintHeader ==
  \E ok \in BOOLEAN :
    /\ Exec("print_hdr", ok)
    /\ Write(ok, MsgHeader, "")

\* Line 15, the argument: page.content().
Content ==
  \E ok \in BOOLEAN :
    /\ Exec("content", ok)
    /\ UNCHANGED <<run, browser, page, log, files, past>>

\* Line 15, the print.
PrintContent ==
  \E ok \in BOOLEAN :
    /\ Exec("print_content", ok)
    /\ Write(ok, MsgContent, "")

\* Line 16.
PrintFooter ==
  \E ok \in BOOLEAN :
    /\ Exec("print_ftr", ok)
    /\ Write(ok, MsgFooter, "")

\* Lines 19-20: the locator is lazy; expect(...).to_be_visible raises when the
\* heading is not visible within the timeout.
ExpectVisible ==
  \E ok \in BOOLEAN :
    /\ Exec("expect", ok)
    /\ UNCHANGED <<run, browser, page, log, files, past>>

\* Line 23.
ScreenshotHomepage ==
  \E ok \in BOOLEAN :
    /\ Exec("shot_home", ok)
    /\ files' = IF ok THEN WriteFile(files, HomepagePng, run) ELSE files
    /\ UNCHANGED <<run, browser, page, log, past>>

\* Line 24.
PrintSuccess ==
  \E ok \in BOOLEAN :
    /\ Exec("print_ok", ok)
    /\ Write(ok, MsgSuccess, "")

\* Line 27: the message holds the text of the caught exception.
PrintError ==
  \E ok \in BOOLEAN :
    /\ Exec("print_err", ok)
    /\ Write(ok, MsgError, e)

\* Line 29.
ScreenshotError ==
  \E ok \in BOOLEAN :
    /\ Exec("shot_err", ok)
    /\ files' = IF ok THEN WriteFile(files, ErrorPng, run) ELSE files
    /\ UNCHANGED <<run, browser, page, log, past>>

\* Line 30.
PrintErrorDone ==
  \E ok \in BOOLEAN :
    /\ Exec("print_done", ok)
    /\ Write(ok, MsgErrShot, "")

\* Lines 32-33: the finally clause.  After it, an exception in flight goes on
\* propagating; otherwise run() returns.
Close ==
  \E ok \in BOOLEAN :
    /\ pc = "close"
    /\ calls' = Append(calls, Call("close", ok))
    /\ browser' = IF ok THEN "closed" ELSE browser
    /\ page' = IF ok THEN "closed" ELSE page
    /\ raising' = IF ok THEN raising ELSE "close"
    /\ pc' = IF ok /\ raising = "none" THEN "returned" ELSE "raised"
    /\ UNCHANGED <<run, e, log, files, past>>

Next ==
  \/ Run
  \/ Launch
  \/ NewPage
  \/ Goto
  \/ PrintHeader
  \/ Content
  \/ PrintContent
  \/ PrintFooter
  \/ ExpectVisible
  \/ ScreenshotHomepage
  \/ PrintSuccess
  \/ PrintError
  \/ ScreenshotError
  \/ PrintErrorDone
  \/ Close

Spec == Init /\ [][Next]_vars

----------------------------------------------------------------------------
\* Vocabulary of the properties: what a run has done, read off its calls.

Idx(s)     == {i \in 1..Len(calls) : calls[i].step = s}
Called(s)  == Idx(s) # {}
Ok(s)      == \E i \in Idx(s) : calls[i].ok
Failed(s)  == \E i \in Idx(s) : ~calls[i].ok
Count(s)   == Cardinality(Idx(s))
Logged(m)  == \E i \in 1..Len(log) : log[i].msg = m
Ended      == pc \in {"returned", "raised"}

\* Every call of a is made before every call of b.
Before(a, b) == \A i \in Idx(a), j \in Idx(b) : i < j

\* close() is the last call of the run.
ClosedLast == calls # <<>> /\ calls[Len(calls)].step = "close"

\* The three branches the specification names.
SuccessBranch  == Ok("print_ok")
NavFailure     == Failed("goto")
HeadingTimeout == Failed("expect")

\* Steps 2 to 6 of the specification's component design.
Steps2to6 == {"new_page", "goto", "print_hdr", "content", "print_content",
              "print_ftr", "expect", "shot_home"}

----------------------------------------------------------------------------
\* Claims the code does not meet.

\* C1: once the browser is launched, run() never raises to its caller, and a
\* failure of any later step has been caught, logged and followed by an
\* attempt at the error screenshot.
C1_RunNeverRaises ==
  Ok("launch") =>
    /\ pc # "raised"
    /\ (Ended /\ \E s \in Steps \ {"launch", "close"} : Failed(s)) =>
         Logged(MsgError) /\ Called("shot_err")

\* C3: a run that launched a browser never exits, by return or by exception,
\* without browser.close() having been called.
C3_ReleasedOnEveryExit ==
  (Ended /\ Ok("launch")) => Called("close")

\* C4: when one of steps 2 to 6 fails, the error is caught, its message is
\* logged, the error screenshot is attempted exactly once, and no step is
\* executed twice.
C4_FailureCaughtLoggedOneAttempt ==
  (Ended /\ \E s \in Steps2to6 : Failed(s)) =>
    /\ Logged(MsgError)
    /\ Count("shot_err") = 1
    /\ \A s \in Steps : Count(s) <= 1

\* C5: when navigation, the heading wait and the homepage screenshot succeed,
\* the run writes homepage.png, neither attempts nor writes error.png and
\* logs the success message; the success message is logged only in runs that
\* wrote homepage.png.
C5_SuccessArtifacts ==
  /\ (Ended /\ Ok("goto") /\ Ok("expect") /\ Ok("shot_home")) =>
       /\ files[HomepagePng] = run
       /\ ~Called("shot_err")
       /\ files[ErrorPng] # run
       /\ Logged(MsgSuccess)
  /\ Logged(MsgSuccess) => files[HomepagePng] = run

\* C6: a run whose navigation fails or whose heading wait times out never
\* writes homepage.png and never logs the success message; it logs an error
\* message and, if the error capture succeeds, writes error.png.
C6_FailureArtifacts ==
  (NavFailure \/ HeadingTimeout) =>
    /\ files[HomepagePng] # run
    /\ ~Logged(MsgSuccess)
    /\ Ended => Logged(MsgError)
    /\ Ok("shot_err") => files[ErrorPng] = run

\* C10: no run writes both homepage.png and error.png, whatever fails after
\* the homepage screenshot.
C10_AtMostOneArtifact ==
  ~(run > 0 /\ files[HomepagePng] = run /\ files[ErrorPng] = run)

----------------------------------------------------------------------------
\* Claims the code meets.

\* C2: browser.close() is never called twice in a run, and a run that ends in
\* the success, navigation-failure or heading-timeout branch has called it
\* exactly once, after every page operation of the run.
C2_ClosedExactlyOnce ==
  /\ Count("close") <= 1
  /\ (Ended /\ (SuccessBranch \/ NavFailure \/ HeadingTimeout)) =>
       /\ Count("close") = 1
       /\ ClosedLast
       /\ \A s \in PageOps : Before(s, "close")

\* A navigation failure whose handler raised too, ended with one close().
C2_Witness ==
  /\ Ended
  /\ NavFailure
  /\ Failed("shot_err")
  /\ Count("close") = 1

\* C8: when the error screenshot fails, nothing handles it: the completion
\* message is not logged, the screenshot is not attempted again, the only
\* call that follows is close(), and the exception leaves run() after it.
C8_ErrorShotFailurePropagates ==
  Failed("shot_err") =>
    /\ ~Logged(MsgErrShot)
    /\ Count("shot_err") = 1
    /\ \A i \in Idx("shot_err"), j \in 1..Len(calls) :
         j > i => calls[j].step = "close"
    /\ pc \in {"close", "raised"}
    /\ raising # "none"
    /\ pc = "raised" => Count("close") = 1 /\ ClosedLast

\* The error screenshot failed, close() returned, the exception is out.
C8_Witness ==
  /\ pc = "raised"
  /\ Failed("shot_err")
  /\ raising = "shot_err"
  /\ Ok("close")

\* The statements of the try block, in the order of the source.
TryOrder == <<"goto", "print_hdr", "content", "print_content",
              "print_ftr", "expect", "shot_home", "print_ok">>

\* The calls of the run that are statements of the try block.
TryCalls == SelectSeq(calls, LAMBDA c : c.step \in TryBody)

\* C9: the steps of a run happen in the one order of the source, none
\* skipped and none repeated: the markup is emitted after navigation has
\* succeeded and before the heading wait; the homepage screenshot follows a
\* successful heading wait; the success message follows a successful
\* homepage screenshot.
C9_FixedOrder ==
  /\ \A s \in {"goto", "expect", "shot_home"} : Count(s) <= 1
  /\ LET tc == TryCalls IN
       /\ Len(tc) <= Len(TryOrder)
       /\ \A i \in 1..Len(tc) :
            /\ tc[i].step = TryOrder[i]
            /\ i < Len(tc) => tc[i].ok
  /\ Called("print_content") => Ok("goto") /\ Before("goto", "print_content")
  /\ Called("expect") =>
       Ok("print_content") /\ Before("print_content", "expect")
  /\ Called("shot_home") => Ok("expect") /\ Before("expect", "shot_home")
  /\ Logged(MsgSuccess) => Ok("shot_home") /\ Before("shot_home", "print_ok")

\* A run that went through every statement of the try block.
C9_Witness ==
  /\ Ended
  /\ Logged(MsgSuccess)
  /\ Logged(MsgContent)
  /\ Ok("goto") /\ Ok("expect") /\ Ok("shot_home")

\* The screenshot call that writes path p.
ShotOf(p) == IF p = HomepagePng THEN "shot_home" ELSE "shot_err"

\* The print statements and the line each writes.
PrintSteps == {"print_hdr", "print_content", "print_ftr", "print_ok",
               "print_err", "print_done"}
MsgOf(step) ==
  CASE step = "print_hdr"     -> MsgHeader
    [] step = "print_content" -> MsgContent
    [] step = "print_ftr"     -> MsgFooter
    [] step = "print_ok"      -> MsgSuccess
    [] step = "print_err"     -> MsgError
    [] step = "print_done"    -> MsgErrShot

OkIn(cs, s) == \E i \in 1..Len(cs) : cs[i].step = s /\ cs[i].ok

\* The statement of the try block that raised in the calls cs.
RaisedIn(cs) ==
  LET bad == {i \in 1..Len(cs) : cs[i].step \in TryBody /\ ~cs[i].ok}
  IN  IF bad = {} THEN "none" ELSE cs[CHOOSE i \in bad : TRUE].step

\* What a run whose calls were cs has logged, if the log depends on nothing
\* but the results of its own calls.
ExpectedLog(cs) ==
  LET pr == SelectSeq(cs, LAMBDA c : c.step \in PrintSteps /\ c.ok)
      r  == RaisedIn(cs)
  IN  [i \in 1..Len(pr) |->
         Line(MsgOf(pr[i].step), IF pr[i].step = "print_err" THEN r ELSE "")]

\* The calls of every run so far, the current one last.
AllRuns == IF run = 0 THEN <<>> ELSE Append(past, calls)

\* The last run whose screenshot of path p succeeded (0: none).
LastWriter(p) ==
  LET ws == {k \in 1..Len(AllRuns) : OkIn(AllRuns[k], ShotOf(p))}
  IN  IF ws = {} THEN 0 ELSE CHOOSE k \in ws : \A j \in ws : j <= k

\* The number of leading calls, with their results, that a and b share.
RECURSIVE CommonPrefix(_, _, _)
CommonPrefix(a, b, n) ==
  IF n < Len(a) /\ n < Len(b) /\ a[n + 1] = b[n + 1]
    THEN CommonPrefix(a, b, n + 1)
    ELSE n

\* The finished run a and the run b made the same calls for as long as they
\* got the same results: they part only at a call that both made and that
\* returned in one and raised in the other, and neither stops where the
\* other, with the same results so far, goes on.
SameStrategy(a, b, bEnded) ==
  LET n == CommonPrefix(a, b, 0) IN
  /\ (n < Len(a) /\ n < Len(b)) => a[n + 1].step = b[n + 1].step
  /\ n = Len(a) => Len(b) = n
  /\ (bEnded /\ n = Len(b)) => Len(a) = n

\* C7: what a later run does depends only on the results of its own calls,
\* not on the earlier runs or on the files they left: it makes the calls an
\* earlier run made for as long as the results are the same, its log is
\* determined by its own calls, and every artifact it writes replaces the
\* file an earlier run left at that path, the other files staying as they
\* were.
C7_RunsIndependent ==
  /\ \A k \in 1..Len(past) : SameStrategy(past[k], calls, Ended)
  /\ log = ExpectedLog(calls)
  /\ \A p \in Paths : files[p] = LastWriter(p)

\* The first run left both files; the second run succeeded, replaced
\* homepage.png and left the first run's error.png.
C7_Witness ==
  /\ run = 2
  /\ pc = "returned"
  /\ OkIn(past[1], "shot_home") /\ OkIn(past[1], "shot_err")
  /\ Ok("print_ok")
  /\ files[HomepagePng] = 2
  /\ files[ErrorPng] = 1

====
